---- MODULE Spec2Model ----
(***************************************************************************)
(* Model of pipager's main.py: the Board class driving an SX1278/RFM98W    *)
(* FSK transceiver over SPI (Board.__init__, Board.send_message) and the   *)
(* run entry point.  Every SPI transfer and GPIO operation is recorded as  *)
(* an event, in program order, in initLog (construction) or sendLog (the   *)
(* send in progress).                                                      *)
(***************************************************************************)
EXTENDS Integers, Sequences, FiniteSets, TLC

VARIABLES
    pc,             \* position of the main control flow
    reset_pin,      \* --reset-pin argument (0 is falsy: no reset line)
    initLog,        \* events issued by Board.__init__, in order
    board_version,  \* value read from register 0x42 (-1 before the read)
    op_mode,        \* value read back from register 0x01 (-1 before the read)
    frf,            \* frequency word computed by __init__ (-1 before)
    data,           \* encoded payload of the send in progress
    is_first_data,  \* local of send_message
    num_bytes,      \* local of send_message (payload cursor)
    irq_flags,      \* local of send_message: the eight decoded flags
    irq_reads,      \* chip answers to the eight status reads of one
                    \* iteration (kept by SpecIrq and SpecLive, empty in Spec)
    sendLog,        \* events issued by the send in progress, in order
    outcome,        \* "none", "Success" (returned True), "Overrun" (False)
    sendNo,         \* number of send_message calls started
    prevOutcome,    \* outcome of the previous send_message call
    overrunSeen,    \* some value read from 0x3F in the send in progress
                    \* had the overrun bit set
    busyPolls,      \* polls of the send in progress that found full/level
    irqEvents       \* log lines emitted by _handle_interrupt

vars == <<pc, reset_pin, initLog, board_version, op_mode, frf, data,
          is_first_data, num_bytes, irq_flags, irq_reads, sendLog, outcome,
          sendNo, prevOutcome, overrunSeen, busyPolls, irqEvents>>

----------------------------------------------------------------------------
(* Bounds of the model *)

MaxLen == 33          \* longest payload, in bytes
MaxSends == 2         \* send_message calls on one Board
MaxBusyPolls == 1     \* polls answering full/level within one send
MaxInterrupts == 1    \* rising edges delivered to the callback
MaxFrfSamples == 300  \* frequency words sampled for the decomposition

----------------------------------------------------------------------------
(* Program constants *)

REG_01_OP_MODE == 1
ChunkSize == 16
ExpectedVersion == 18         \* 0x12
FskSleepMode == 8             \* 0x08
StandbyMode == 1              \* 0x01
ReceiveMode == 5              \* 0x05
TransmitMode == 3             \* 0x03
RegFifo == 0                  \* 0x00
RegIrqFlags == 63             \* 0x3f
RegVersion == 66              \* 0x42
WriteMarker == 128            \* 0x80

----------------------------------------------------------------------------
(* Bit arithmetic on naturals, as Python's | & >> << compute it *)

RECURSIVE BitOr(_, _)
BitOr(a, b) ==
    IF a = 0 THEN b
    ELSE IF b = 0 THEN a
    ELSE (IF a % 2 = 1 \/ b % 2 = 1 THEN 1 ELSE 0) + 2 * BitOr(a \div 2, b \div 2)

RECURSIVE BitAnd(_, _)
BitAnd(a, b) ==
    IF a = 0 \/ b = 0 THEN 0
    ELSE (IF a % 2 = 1 /\ b % 2 = 1 THEN 1 ELSE 0) + 2 * BitAnd(a \div 2, b \div 2)

ShiftR(a, n) == a \div (2 ^ n)

ShiftL(a, n) == a * (2 ^ n)

----------------------------------------------------------------------------
(* Bus and GPIO events *)

\* one spi.xfer call: op is the method that issued it, bytes what it sent
Xfer(op, bytes) == [kind |-> "xfer", op |-> op, bytes |-> bytes]

GpioWrite(pin, level) == [kind |-> "gpio_write", op |-> "gpio", bytes |-> <<pin, level>>]

SpiOpen == [kind |-> "spi_open", op |-> "open", bytes |-> <<0>>]

\* spi_read: xfer([register] + [0] * length)
spi_read(register, length) == Xfer("read", <<register>> \o [i \in 1..length |-> 0])

\* mutation: the address byte goes out as given (what spi_raw_write does)
spi_write_Unmarked(register, payload) == Xfer("write", <<register>> \o payload)

\* spi_write: xfer([register | 0x80] + payload)
spi_write(register, payload) ==
    Xfer("write", <<BitOr(register, WriteMarker)>> \o payload)

\* Python slice s[a:b] for 0 <= a <= b
PySlice(s, a, b) ==
    LET hi == IF b < Len(s) THEN b ELSE Len(s)
    IN  IF a >= hi THEN <<>> ELSE [i \in 1..(hi - a) |-> s[a + i]]

\* irq_flags = [1 if self.spi_read(0x3f, 1) & (1 << (7-n)) else 0
\*              for n in range(8)]
\* The comprehension evaluates spi_read once per element: reads[n + 1] is
\* the value answered to the read made for element n.
IrqFlags(reads) ==
    [i \in 1..8 |-> IF BitAnd(reads[i], ShiftL(1, 7 - (i - 1))) # 0 THEN 1 ELSE 0]

\* fifo_full = irq_flags[0]
fifo_full(flags) == flags[1] = 1

\* fifo_level = irq_flags[2]
fifo_level(flags) == flags[3] = 1

\* fifo_overrun = irq_flags[3]
fifo_overrun(flags) == flags[4] = 1

----------------------------------------------------------------------------
(* Inputs from the environment *)

\* --reset-pin: the default 12, or 0 (no reset line)
ResetPins == {0, 12}

\* what the chip may answer to the version read
ChipVersions == {18, 153}

\* what the chip may answer to the op-mode read-back (0x80: still LoRa)
ReadBackValues == {8, 128}

\* status values: idle, full, level, overrun, all three, unrelated bits only
StatusValues == {0, 128, 32, 16, 176, 79}

\* answers to the eight status reads of one iteration: the chip's status is
\* a for the first k reads and b from then on: it changes at most once
\* while the iteration reads it, after the read for element 0, 2 or 3 (the
\* elements the loop uses) or not at all
StatusReads ==
    { [i \in 1..8 |-> IF i <= k THEN a ELSE b] :
          a \in StatusValues, b \in StatusValues, k \in {1, 3, 4, 8} }

\* bit 4 of a value read from 0x3F
OverrunBit(value) == BitAnd(value, 16) # 0

\* payload lengths: around every multiple of the chunk size, and the longest
PayloadLens == {L \in 0..MaxLen : L % 16 \in {0, 1} \/ L = MaxLen}

\* stand-in for encodeTXBatch: an L-byte sequence with distinguishable bytes
Payload(L) == [i \in 1..L |-> (i * 37 + 11) % 256]

----------------------------------------------------------------------------
(* Frequency word *)

\* fstep = 32000000.0 / 524288; frf = int((439.9875 * 1000000) / fstep)
\* 439987500 * 524288 / 32000000 = 879975 * 1024 / 125, truncated
Frf == (879975 * 1024) \div 125

FrfMsb(f) == BitAnd(ShiftR(f, 16), 255)

\* mutation: the middle byte taken with the MSB's shift
FrfMid_Shift16(f) == BitAnd(ShiftR(f, 16), 255)

FrfMid(f) == BitAnd(ShiftR(f, 8), 255)

FrfLsb(f) == BitAnd(f, 255)

FrfWrites(f) ==
    << spi_write(6, <<FrfMsb(f)>>),
       spi_write(7, <<FrfMid(f)>>),
       spi_write(8, <<FrfLsb(f)>>) >>

----------------------------------------------------------------------------
(* Initial state: run() is about to construct the Board *)

Init ==
    /\ pc = "claim_gpio"
    /\ reset_pin \in ResetPins
    /\ initLog = <<>>
    /\ board_version = -1
    /\ op_mode = -1
    /\ frf = -1
    /\ data = <<>>
    /\ is_first_data = TRUE
    /\ num_bytes = 0
    /\ irq_flags = <<>>
    /\ irq_reads = <<>>
    /\ sendLog = <<>>
    /\ outcome = "none"
    /\ sendNo = 0
    /\ prevOutcome = "none"
    /\ overrunSeen = FALSE
    /\ busyPolls = 0
    /\ irqEvents = 0

sendVars == <<data, is_first_data, num_bytes, irq_flags, irq_reads, sendLog,
              outcome, sendNo, prevOutcome, overrunSeen, busyPolls>>

----------------------------------------------------------------------------
(* Board.__init__ *)

\* gpiochip_open, claim input, claim alert, register the edge callback
ClaimGpio ==
    /\ pc = "claim_gpio"
    /\ pc' = "reset"
    /\ UNCHANGED <<reset_pin, initLog, board_version, op_mode, frf, sendVars, irqEvents>>

\* mutation: the reset line is driven high, then low
ResetBoard_HighThenLow ==
    /\ pc = "reset"
    /\ pc' = "open_spi"
    /\ initLog' = IF reset_pin # 0
                  THEN initLog \o <<GpioWrite(reset_pin, 1), GpioWrite(reset_pin, 0)>>
                  ELSE initLog
    /\ UNCHANGED <<reset_pin, board_version, op_mode, frf, sendVars, irqEvents>>

\* if reset_pin: drive the line low, then high
ResetBoard ==
    /\ pc = "reset"
    /\ pc' = "open_spi"
    /\ initLog' = IF reset_pin # 0
                  THEN initLog \o <<GpioWrite(reset_pin, 0), GpioWrite(reset_pin, 1)>>
                  ELSE initLog
    /\ UNCHANGED <<reset_pin, board_version, op_mode, frf, sendVars, irqEvents>>

OpenSpi ==
    /\ pc = "open_spi"
    /\ pc' = "read_version"
    /\ initLog' = Append(initLog, SpiOpen)
    /\ UNCHANGED <<reset_pin, board_version, op_mode, frf, sendVars, irqEvents>>

\* board_version = spi_read(0x42, 1); on mismatch: log an error and return
ReadVersion ==
    /\ pc = "read_version"
    /\ \E v \in ChipVersions :
        /\ board_version' = v
        /\ pc' = IF v # ExpectedVersion THEN "constructed" ELSE "write_fsk_sleep"
    /\ initLog' = Append(initLog, spi_read(RegVersion, 1))
    /\ UNCHANGED <<reset_pin, op_mode, frf, sendVars, irqEvents>>

WriteFskSleep ==
    /\ pc = "write_fsk_sleep"
    /\ pc' = "read_back"
    /\ initLog' = Append(initLog, spi_write(REG_01_OP_MODE, <<FskSleepMode>>))
    /\ UNCHANGED <<reset_pin, board_version, op_mode, frf, sendVars, irqEvents>>

\* mutation: the read-back value is not compared
ReadBackOpMode_NoCheck ==
    /\ pc = "read_back"
    /\ \E m \in ReadBackValues : op_mode' = m
    /\ pc' = "program"
    /\ initLog' = Append(initLog, spi_read(REG_01_OP_MODE, 1))
    /\ UNCHANGED <<reset_pin, board_version, frf, sendVars, irqEvents>>

\* op_mode = spi_read(0x01, 1); if op_mode != 0x08: raise ValueError
ReadBackOpMode ==
    /\ pc = "read_back"
    /\ \E m \in ReadBackValues :
        /\ op_mode' = m
        /\ pc' = IF m # FskSleepMode THEN "raised" ELSE "program"
    /\ initLog' = Append(initLog, spi_read(REG_01_OP_MODE, 1))
    /\ UNCHANGED <<reset_pin, board_version, frf, sendVars, irqEvents>>

\* standby, bit rate, deviation, preamble length, frequency, then 0x0 := 12
ProgramModem ==
    /\ pc = "program"
    /\ pc' = "constructed"
    /\ frf' = Frf
    /\ initLog' = initLog
          \o << spi_write(REG_01_OP_MODE, <<StandbyMode>>),
                spi_write(2, <<104>>),
                spi_write(3, <<43>>),
                spi_write(4, <<0>>),
                spi_write(5, <<74>>),
                spi_write(37, <<0>>),
                spi_write(38, <<0>>) >>
          \o FrfWrites(Frf)
          \o << spi_write(RegFifo, <<12>>) >>
    /\ UNCHANGED <<reset_pin, board_version, op_mode, sendVars, irqEvents>>

----------------------------------------------------------------------------
(* Board.send_message *)

\* FIFO threshold, sync off, exit condition, FIFO pointer, receive, standby
PrepareWrites ==
    << spi_write(53, <<160>>),
       spi_write(39, <<0>>),
       spi_write(53, <<4>>),
       spi_write(13, <<0>>),
       spi_write(1, <<ReceiveMode>>),
       spi_write(REG_01_OP_MODE, <<StandbyMode>>) >>

\* mutation: the cursor and the first-chunk flag survive from the previous send
SendPrepare_Stale ==
    /\ \/ pc = "constructed" /\ sendNo = 0
       \/ pc = "returned" /\ sendNo < MaxSends
    /\ pc' = "loop"
    /\ \E L \in PayloadLens : data' = Payload(L)
    /\ sendLog' = PrepareWrites
    /\ irq_flags' = <<>>
    /\ irq_reads' = <<>>
    /\ outcome' = "none"
    /\ prevOutcome' = outcome
    /\ sendNo' = sendNo + 1
    /\ overrunSeen' = FALSE
    /\ busyPolls' = 0
    /\ UNCHANGED <<reset_pin, initLog, board_version, op_mode, frf, irqEvents,
                   is_first_data, num_bytes>>

\* run() calls send_message once on the Board it constructed (also when
\* __init__ returned early); a caller holding the Board may call it again
\* after a send returned.  Encodes the payload, prepares the chip and
\* initialises the loop's locals.
SendPrepare ==
    /\ \/ pc = "constructed" /\ sendNo = 0
       \/ pc = "returned" /\ sendNo < MaxSends
    /\ pc' = "loop"
    /\ \E L \in PayloadLens : data' = Payload(L)
    /\ sendLog' = PrepareWrites
    /\ is_first_data' = TRUE
    /\ num_bytes' = 0
    /\ irq_flags' = <<>>
    /\ irq_reads' = <<>>
    /\ outcome' = "none"
    /\ prevOutcome' = outcome
    /\ sendNo' = sendNo + 1
    /\ overrunSeen' = FALSE
    /\ busyPolls' = 0
    /\ UNCHANGED <<reset_pin, initLog, board_version, op_mode, frf, irqEvents>>

\* mutation: the loop condition is num_bytes <= len(data)
LoopTest_Inclusive ==
    /\ pc = "loop"
    /\ IF num_bytes <= Len(data)
       THEN /\ pc' = "poll"
            /\ irq_flags' = <<>>
            /\ irq_reads' = <<>>
            /\ UNCHANGED outcome
       ELSE /\ pc' = "returned"
            /\ outcome' = "Success"
            /\ UNCHANGED <<irq_flags, irq_reads>>
    /\ UNCHANGED <<reset_pin, initLog, board_version, op_mode, frf, data,
                   is_first_data, num_bytes, sendLog,
                   sendNo, prevOutcome, overrunSeen, busyPolls, irqEvents>>

\* while (num_bytes < len(data)): ... ; return True
\* Entering the body, the comprehension starts a new flag list from new reads.
LoopTest ==
    /\ pc = "loop"
    /\ IF num_bytes < Len(data)
       THEN /\ pc' = "poll"
            /\ irq_flags' = <<>>
            /\ irq_reads' = <<>>
            /\ UNCHANGED outcome
       ELSE /\ pc' = "returned"
            /\ outcome' = "Success"
            /\ UNCHANGED <<irq_flags, irq_reads>>
    /\ UNCHANGED <<reset_pin, initLog, board_version, op_mode, frf, data,
                   is_first_data, num_bytes, sendLog,
                   sendNo, prevOutcome, overrunSeen, busyPolls, irqEvents>>

\* the branch taken on the decoded flags
PollBranch(flags) ==
    IF fifo_overrun(flags) THEN "overrun"
    ELSE IF fifo_full(flags) \/ fifo_level(flags) THEN "busy"
    ELSE "write"

\* the effect of lines 166-177 on the locals when the chip answers reads
PollOn(reads) ==
    /\ irq_flags' = IrqFlags(reads)
    /\ overrunSeen' = (overrunSeen \/ \E i \in 1..8 : OverrunBit(reads[i]))
    /\ pc' = CASE PollBranch(irq_flags') = "overrun" -> "returned"
               [] PollBranch(irq_flags') = "busy" -> "loop"
               [] OTHER -> "write"
    /\ outcome' = IF pc' = "returned" THEN "Overrun" ELSE outcome

\* eight reads of 0x3f, one per decoded flag, then:
\* return False / continue / fall through to the write
Poll ==
    /\ pc = "poll"
    /\ \E reads \in StatusReads :
        /\ PollOn(reads)
        /\ busyPolls' = IF pc' = "loop" THEN busyPolls + 1 ELSE busyPolls
        /\ busyPolls' <= MaxBusyPolls
    /\ sendLog' = sendLog \o [i \in 1..8 |-> spi_read(RegIrqFlags, 1)]
    /\ irq_reads' = <<>>
    /\ UNCHANGED <<reset_pin, initLog, board_version, op_mode, frf, data,
                   is_first_data, num_bytes, sendNo, prevOutcome, irqEvents>>

\* mutation: is_first_data is never cleared
WriteChunk_ArmEveryChunk ==
    /\ pc = "write"
    /\ pc' = "loop"
    /\ sendLog' = sendLog
          \o << spi_write(RegFifo, PySlice(data, num_bytes, num_bytes + ChunkSize)) >>
          \o (IF is_first_data
              THEN << spi_write(1, <<TransmitMode>>) >>
              ELSE << >>)
    /\ num_bytes' = num_bytes + ChunkSize
    /\ UNCHANGED <<reset_pin, initLog, board_version, op_mode, frf, data,
                   is_first_data, irq_flags, irq_reads, outcome, sendNo,
                   prevOutcome, overrunSeen, busyPolls, irqEvents>>

\* mutation: the cursor advances by one less than the chunk size
WriteChunk_Advance15 ==
    /\ pc = "write"
    /\ pc' = "loop"
    /\ sendLog' = sendLog
          \o << spi_write(RegFifo, PySlice(data, num_bytes, num_bytes + ChunkSize)) >>
          \o (IF is_first_data
              THEN << spi_write(1, <<TransmitMode>>) >>
              ELSE << >>)
    /\ num_bytes' = num_bytes + ChunkSize - 1
    /\ is_first_data' = FALSE
    /\ UNCHANGED <<reset_pin, initLog, board_version, op_mode, frf, data,
                   irq_flags, irq_reads, outcome, sendNo, prevOutcome, overrunSeen,
                   busyPolls, irqEvents>>

\* write data[num_bytes:num_bytes+16], num_bytes += 16, arm Tx on first data
WriteChunk ==
    /\ pc = "write"
    /\ pc' = "loop"
    /\ sendLog' = sendLog
          \o << spi_write(RegFifo, PySlice(data, num_bytes, num_bytes + ChunkSize)) >>
          \o (IF is_first_data
              THEN << spi_write(1, <<TransmitMode>>) >>
              ELSE << >>)
    /\ num_bytes' = num_bytes + ChunkSize
    /\ is_first_data' = FALSE
    /\ UNCHANGED <<reset_pin, initLog, board_version, op_mode, frf, data,
                   irq_flags, irq_reads, outcome, sendNo, prevOutcome, overrunSeen,
                   busyPolls, irqEvents>>

----------------------------------------------------------------------------
(* Board._handle_interrupt: fired by lgpio once the callback is registered *)

\* mutation: the callback reads the status register over the bus
HandleInterrupt_ReadsStatus ==
    /\ pc \notin {"claim_gpio", "raised", "frf_input", "frf_done"}
    /\ irqEvents < MaxInterrupts
    /\ irqEvents' = irqEvents + 1
    /\ sendLog' = Append(sendLog, spi_read(RegIrqFlags, 1))
    /\ UNCHANGED <<pc, reset_pin, initLog, board_version, op_mode, frf, data,
                   is_first_data, num_bytes, irq_flags, irq_reads, outcome,
                   sendNo, prevOutcome, overrunSeen, busyPolls>>

HandleInterrupt ==
    /\ pc \notin {"claim_gpio", "raised", "frf_input", "frf_done"}
    /\ irqEvents < MaxInterrupts
    /\ irqEvents' = irqEvents + 1
    /\ UNCHANGED <<pc, reset_pin, initLog, board_version, op_mode, frf, sendVars>>

----------------------------------------------------------------------------
(* The whole program *)

Next ==
    \/ ClaimGpio
    \/ ResetBoard
    \/ OpenSpi
    \/ ReadVersion
    \/ WriteFskSleep
    \/ ReadBackOpMode
    \/ ProgramModem
    \/ SendPrepare
    \/ LoopTest
    \/ Poll
    \/ WriteChunk
    \/ HandleInterrupt

Spec == Init /\ [][Next]_vars

----------------------------------------------------------------------------
(* The frequency decomposition of __init__ applied to sampled 24-bit words *)

FrfInputs ==
    {(k * 1000003) % (2 ^ 24) : k \in 0..MaxFrfSamples}
        \cup {Frf, 2 ^ 24 - 1, 255, 256, 65535, 65536}

InitFrf ==
    /\ pc = "frf_input"
    /\ reset_pin = 12
    /\ initLog = <<>>
    /\ board_version = ExpectedVersion
    /\ op_mode = FskSleepMode
    /\ frf \in FrfInputs
    /\ data = <<>>
    /\ is_first_data = TRUE
    /\ num_bytes = 0
    /\ irq_flags = <<>>
    /\ irq_reads = <<>>
    /\ sendLog = <<>>
    /\ outcome = "none"
    /\ sendNo = 0
    /\ prevOutcome = "none"
    /\ overrunSeen = FALSE
    /\ busyPolls = 0
    /\ irqEvents = 0

\* spi_write(0x06, ...); spi_write(0x07, ...); spi_write(0x08, ...)
ProgramFrequency ==
    /\ pc = "frf_input"
    /\ pc' = "frf_done"
    /\ initLog' = initLog \o FrfWrites(frf)
    /\ UNCHANGED <<reset_pin, board_version, op_mode, frf, sendVars, irqEvents>>

NextFrf == ProgramFrequency

SpecFrf == InitFrf /\ [][NextFrf]_vars

----------------------------------------------------------------------------
(* The status decode of send_message applied to sampled answers of the chip *)

\* the eight answers to one iteration's reads: every byte answered to all
\* eight, and the answers that change while the iteration reads
DecodeInputs ==
    {[i \in 1..8 |-> v] : v \in 0..255} \cup StatusReads

\* a send of one byte about to make its first poll
InitIrq ==
    /\ pc = "poll"
    /\ reset_pin = 12
    /\ initLog = <<>>
    /\ board_version = ExpectedVersion
    /\ op_mode = FskSleepMode
    /\ frf = Frf
    /\ data = Payload(1)
    /\ is_first_data = TRUE
    /\ num_bytes = 0
    /\ irq_flags = <<>>
    /\ irq_reads \in DecodeInputs
    /\ sendLog = <<>>
    /\ outcome = "none"
    /\ sendNo = 1
    /\ prevOutcome = "none"
    /\ overrunSeen = FALSE
    /\ busyPolls = 0
    /\ irqEvents = 0

\* lines 166-177 on the answers held in irq_reads
DecodeStatus ==
    /\ pc = "poll"
    /\ irq_reads # <<>>
    /\ PollOn(irq_reads)
    /\ UNCHANGED <<reset_pin, initLog, board_version, op_mode, frf, data,
                   is_first_data, num_bytes, irq_reads, sendLog, sendNo,
                   prevOutcome, busyPolls, irqEvents>>

NextIrq == DecodeStatus

SpecIrq == InitIrq /\ [][NextIrq]_vars

----------------------------------------------------------------------------
(* The program with the main flow always running on: lines 165-177 have no  *)
(* timeout, so a send may poll for ever. The log of status reads and the    *)
(* count of busy polls only record history and are left out here, which     *)
(* makes an endless poll a finite cycle; irq_reads keeps the answers of the *)
(* latest iteration.                                                        *)

PollLive ==
    /\ pc = "poll"
    /\ \E reads \in StatusReads :
        /\ PollOn(reads)
        /\ irq_reads' = reads
    /\ UNCHANGED <<reset_pin, initLog, board_version, op_mode, frf, data,
                   is_first_data, num_bytes, sendLog, sendNo, prevOutcome,
                   busyPolls, irqEvents>>

MainLive ==
    \/ ClaimGpio
    \/ ResetBoard
    \/ OpenSpi
    \/ ReadVersion
    \/ WriteFskSleep
    \/ ReadBackOpMode
    \/ ProgramModem
    \/ SendPrepare
    \/ LoopTest
    \/ PollLive
    \/ WriteChunk

NextLive ==
    \/ MainLive
    \/ HandleInterrupt

\* the interpreter keeps executing the main flow while it has a next statement
SpecLive == Init /\ [][NextLive]_vars /\ WF_vars(MainLive)

----------------------------------------------------------------------------
(* Reading the event logs *)

IsWriteTo(e, reg) == e.kind = "xfer" /\ e.bytes[1] = reg + 128

IsReadOf(e, reg) == e.kind = "xfer" /\ e.bytes[1] = reg

IsWrite(e) == e.kind = "xfer" /\ e.bytes[1] >= 128

Writes(log) == SelectSeq(log, IsWrite)

IsOpModeWrite(e) == IsWriteTo(e, 1)

IsDataWrite(e) == IsWriteTo(e, 0)

IsStatusRead(e) == IsReadOf(e, 63)

\* value of the last write to register 0x01 in log (-1: none)
LastOpModeWrite(log) ==
    LET w == SelectSeq(log, IsOpModeWrite)
    IN  IF w = <<>> THEN -1 ELSE w[Len(w)].bytes[2]

DataWrites(log) == SelectSeq(log, IsDataWrite)

NumPolls(log) == Len(SelectSeq(log, IsStatusRead))

\* the chunks written to register 0x00, in order
Chunks(log) == [i \in 1..Len(DataWrites(log)) |-> Tail(DataWrites(log)[i].bytes)]

RECURSIVE Concat(_)
Concat(seqs) == IF seqs = <<>> THEN <<>> ELSE Head(seqs) \o Concat(Tail(seqs))

RECURSIVE SumLen(_)
SumLen(seqs) == IF seqs = <<>> THEN 0 ELSE Len(Head(seqs)) + SumLen(Tail(seqs))

IsPrefix(p, s) == Len(p) <= Len(s) /\ \A i \in 1..Len(p) : p[i] = s[i]

\* positions in log of the writes of Transmit to 0x01, and of the data writes
TxIdx(log) == {i \in 1..Len(log) : IsOpModeWrite(log[i]) /\ log[i].bytes[2] = 3}

DataIdx(log) == {i \in 1..Len(log) : IsDataWrite(log[i])}

MinOf(S) == CHOOSE m \in S : \A x \in S : m <= x

ModemRegs == {2, 3, 4, 5, 6, 7, 8, 37, 38}

Returned(o) == pc = "returned" /\ outcome = o

----------------------------------------------------------------------------
(* C1: whenever send_message, on an initialised Board, returns False on    *)
(* overrun, the last value written to op-mode register 0x01 in that send   *)
(* is Standby (0x01).                                                      *)
C1_OverrunEndsInStandby ==
    (board_version = 18 /\ Returned("Overrun")) => LastOpModeWrite(sendLog) = 1

(* C2: whenever send_message, on an initialised Board, returns True, the   *)
(* last value written to op-mode register 0x01 in that send is Standby     *)
(* (0x01), not Transmit.                                                   *)
C2_SuccessEndsInStandby ==
    (board_version = 18 /\ Returned("Success")) => LastOpModeWrite(sendLog) = 1

(* C3: once the version register has read a value other than 0x12, no      *)
(* write to register 0x01 or to a modem register is ever issued and no     *)
(* send is started.                                                        *)
C3_VersionMismatchStopsTheRun ==
    (board_version # -1 /\ board_version # 18) =>
        /\ sendNo = 0
        /\ \A i \in 1..Len(initLog \o sendLog) :
             LET e == (initLog \o sendLog)[i]
             IN  ~IsOpModeWrite(e) /\ \A r \in ModemRegs : ~IsWriteTo(e, r)

(* C4: once a value read from status register 0x3F in a send, on an       *)
(* initialised Board, has had the overrun bit (bit 4) set, the send goes   *)
(* on to no data write: it has returned False.                             *)
C4_OverrunShownAbortsTheSend ==
    (board_version = 18 /\ overrunSeen) => Returned("Overrun")

(* C5: a send that has written a chunk has written Transmit to 0x01        *)
(* exactly once, after its first data write and before any second one; a   *)
(* send that has written no chunk has not written Transmit.                *)
C5_TransmitArmedOnceAfterFirstChunk ==
    sendNo >= 1 =>
        LET tx == TxIdx(sendLog)
            dw == DataIdx(sendLog)
        IN  /\ dw = {} => tx = {}
            /\ dw # {} =>
                 /\ Cardinality(tx) = 1
                 /\ \A t \in tx :
                      /\ MinOf(dw) < t
                      /\ \A d \in dw \ {MinOf(dw)} : t < d

C5_Witness ==
    /\ Returned("Success")
    /\ board_version = 18
    /\ Cardinality(DataIdx(sendLog)) = 3
    /\ Cardinality(TxIdx(sendLog)) = 1

(* C6: when send_message returns True the chunk sizes sum to the payload   *)
(* length, every chunk but the last has 16 bytes, the last has 1..16, and  *)
(* no chunk is empty.                                                      *)
C6_ChunkSizes ==
    Returned("Success") =>
        LET c == Chunks(sendLog)
            n == Len(c)
        IN  /\ SumLen(c) = Len(data)
            /\ \A i \in 1..n : Len(c[i]) >= 1
            /\ \A i \in 1..(n - 1) : Len(c[i]) = 16
            /\ n >= 1 => Len(c[n]) \in 1..16

C6_Witness ==
    /\ Returned("Success")
    /\ board_version = 18
    /\ Len(data) = 33
    /\ Len(Chunks(sendLog)) = 3
    /\ Len(Chunks(sendLog)[3]) = 1

(* C7: at every point of a send, on an initialised Board, the chunks      *)
(* written so far, concatenated, are a prefix of the payload; and the send *)
(* returns True if and only if they make up the whole payload and no value *)
(* read from 0x3F in that send had the overrun bit set.                    *)
C7_PrefixAndSuccessIff ==
    (board_version = 18 /\ sendNo >= 1) =>
        LET written == Concat(Chunks(sendLog))
        IN  /\ IsPrefix(written, data)
            /\ pc = "returned" =>
                 (outcome = "Success" <=> (written = data /\ ~overrunSeen))

(* C8: the write of 0x08 to op-mode register 0x01 is followed by a read of *)
(* that register; a read-back other than 0x08 raises, with no further      *)
(* write by __init__ and no send; a read-back of 0x08 lets __init__ go on  *)
(* to its remaining writes.                                                *)
C8_ReadBackVerified ==
    /\ pc = "read_back" =>
         initLog[Len(initLog)].bytes = <<129, 8>>
    /\ op_mode # -1 =>
         \E i \in 1..(Len(initLog) - 1) :
             /\ initLog[i].bytes = <<129, 8>>
             /\ initLog[i + 1].bytes = <<1, 0>>
             /\ \A j \in 1..(i - 1) : ~IsWrite(initLog[j])
    /\ (op_mode # -1 /\ op_mode # 8) =>
         /\ pc = "raised"
         /\ sendNo = 0
         /\ Len(Writes(initLog)) = 1
    /\ op_mode = 8 =>
         /\ pc # "raised"
         /\ pc # "program" =>
              /\ Len(Writes(initLog)) = 12
              /\ Writes(initLog)[2].bytes = <<129, 1>>

C8_Witness ==
    /\ pc = "raised"
    /\ op_mode = 128
    /\ Len(Writes(initLog)) = 1

(* C9: every send_message call on one Board, whatever the previous call    *)
(* returned, enters its loading loop after the full preparing sequence     *)
(* with cursor 0, the first-chunk flag set and Standby as the last op-mode *)
(* write, and writes Transmit at most once.                                *)
C9_EverySendStartsFresh ==
    sendNo >= 1 =>
        /\ Len(sendLog) >= 6
        /\ [i \in 1..6 |-> sendLog[i].bytes] =
              << <<181, 160>>, <<167, 0>>, <<181, 4>>, <<141, 0>>,
                 <<129, 5>>, <<129, 1>> >>
        /\ (pc = "loop" /\ NumPolls(sendLog) = 0) =>
              /\ num_bytes = 0
              /\ is_first_data
              /\ Len(sendLog) = 6
              /\ LastOpModeWrite(sendLog) = 1
        /\ Cardinality(TxIdx(sendLog)) <= 1
        /\ Len(DataWrites(sendLog)) >= 1 => Cardinality(TxIdx(sendLog)) = 1

C9_Witness ==
    /\ sendNo = 2
    /\ prevOutcome = "Overrun"
    /\ Returned("Success")
    /\ Len(DataWrites(sendLog)) >= 2

(* C10: the bytes written to 0x06, 0x07, 0x08, in that order, are each in  *)
(* 0..255 and (msb<<16)|(mid<<8)|lsb is the frequency word they were       *)
(* taken from.                                                             *)
C10_FrfRoundTrip ==
    pc = "frf_done" =>
        /\ Len(initLog) = 3
        /\ initLog[1].bytes[1] = 134
        /\ initLog[2].bytes[1] = 135
        /\ initLog[3].bytes[1] = 136
        /\ LET msb == initLog[1].bytes[2]
               mid == initLog[2].bytes[2]
               lsb == initLog[3].bytes[2]
           IN  /\ {msb, mid, lsb} \subseteq 0..255
               /\ BitOr(BitOr(ShiftL(msb, 16), ShiftL(mid, 8)), lsb) = frf

C10_Witness ==
    /\ pc = "frf_done"
    /\ frf = Frf
    /\ initLog[1].bytes[2] = 109
    /\ initLog[2].bytes[2] = 255
    /\ initLog[3].bytes[2] = 51

(* C11 as written: after every chunk write the cursor equals the number of *)
(* payload bytes written so far, never exceeds the payload length, and     *)
(* equals it when the send returns True.                                   *)
C11_CursorEqualsBytesWritten ==
    (board_version = 18 /\ sendNo >= 1) =>
        /\ num_bytes = SumLen(Chunks(sendLog))
        /\ num_bytes <= Len(data)
        /\ Returned("Success") => num_bytes = Len(data)

MinNat(a, b) == IF a < b THEN a ELSE b

(* C11 amended: every chunk write advances the cursor by 16 whatever the   *)
(* size of the chunk written, so the cursor is 16 times the number of      *)
(* chunks written, the bytes written so far number min(cursor, L), the     *)
(* cursor exceeds L by at most 15, and when the send returns True the      *)
(* cursor is the least multiple of 16 that is >= L.                        *)
C11_CursorAdvancesBySixteen ==
    sendNo >= 1 =>
        /\ num_bytes = 16 * Len(Chunks(sendLog))
        /\ SumLen(Chunks(sendLog)) = MinNat(num_bytes, Len(data))
        /\ num_bytes < Len(data) + 16
        /\ Returned("Success") =>
             /\ num_bytes >= Len(data)
             /\ num_bytes % 16 = 0
             /\ num_bytes - Len(data) <= 15

C11_Witness ==
    /\ Returned("Success")
    /\ board_version = 18
    /\ Len(data) = 17
    /\ num_bytes = 32
    /\ SumLen(Chunks(sendLog)) = 17

\* loop iterations of the send in progress that have made their poll
Iterations ==
    Len(DataWrites(sendLog)) + busyPolls
        + (IF Returned("Overrun") THEN 1 ELSE 0)
        + (IF pc = "write" THEN 1 ELSE 0)

(* C12: in a send on an initialised Board, the reads of status register    *)
(* 0x3F number one per loop iteration, and an iteration goes on to its     *)
(* data write only with full, level and overrun all clear.                 *)
C12_OneSnapshotPerIteration ==
    (board_version = 18 /\ sendNo >= 1) =>
        /\ NumPolls(sendLog) = Iterations
        /\ pc = "write" =>
             ~(fifo_full(irq_flags) \/ fifo_level(irq_flags) \/ fifo_overrun(irq_flags))

\* the events of a send up to its first status read or data write
Preparing(log) ==
    LET stop == {i \in 1..Len(log) : IsStatusRead(log[i]) \/ IsDataWrite(log[i])}
    IN  IF stop = {} THEN log ELSE SubSeq(log, 1, MinOf(stop) - 1)

\* value of the last write to register reg in log (-1: none)
LastWriteTo(log, reg) ==
    LET idx == {i \in 1..Len(log) : IsWriteTo(log[i], reg)}
    IN  IF idx = {} THEN -1
        ELSE log[CHOOSE m \in idx : \A x \in idx : x <= m].bytes[2]

(* C13: in every send on an initialised Board the events before the first  *)
(* status read and data write contain, in this order, a write to 0x35,     *)
(* 0x27 := 0, 0x0D := 0, 0x01 := Receive, 0x01 := Standby; the last        *)
(* op-mode write among them is Standby and the last value written to 0x35  *)
(* is the FIFO threshold the code sets (0xA0, 32 bytes).                   *)
C13_PreparedBeforeLoading ==
    (board_version = 18 /\ sendNo >= 1) =>
        LET pre == Preparing(sendLog)
        IN  /\ \E i1, i2, i3, i4, i5 \in 1..Len(pre) :
                  /\ i1 < i2 /\ i2 < i3 /\ i3 < i4 /\ i4 < i5
                  /\ IsWriteTo(pre[i1], 53)
                  /\ pre[i2].bytes = <<167, 0>>
                  /\ pre[i3].bytes = <<141, 0>>
                  /\ pre[i4].bytes = <<129, 5>>
                  /\ pre[i5].bytes = <<129, 1>>
            /\ LastOpModeWrite(pre) = 1
            /\ LastWriteTo(pre, 53) = 160

(* C14: __init__ issues no write to data register 0x00, and the bytes      *)
(* written to 0x00 by the send in progress are bytes of its payload.       *)
C14_OnlyPayloadInFifo ==
    /\ \A i \in 1..Len(initLog) : ~IsDataWrite(initLog[i])
    /\ IsPrefix(Concat(Chunks(sendLog)), data)

(* C16: a step of the interrupt callback adds one log line and changes     *)
(* nothing else: no bus or GPIO event and no variable of the main flow;    *)
(* and no step of the main flow depends on or changes the callback's log.  *)
C16_InterruptOnlyLogs ==
    [][/\ irqEvents' # irqEvents =>
            /\ irqEvents' = irqEvents + 1
            /\ UNCHANGED <<pc, reset_pin, initLog, board_version, op_mode, frf,
                           data, is_first_data, num_bytes, irq_flags, irq_reads,
                           sendLog, outcome, sendNo, prevOutcome, overrunSeen,
                           busyPolls>>
       /\ (initLog' # initLog \/ sendLog' # sendLog \/ pc' # pc) =>
            irqEvents' = irqEvents]_vars

C16_Witness ==
    /\ irqEvents = 1
    /\ pc = "write"
    /\ board_version = 18
    /\ Len(DataWrites(sendLog)) = 1

IsXferEvent(e) == e.kind = "xfer"

(* C17: with a reset line configured, __init__ drives it low, then high,   *)
(* then opens the bus, then reads version register 0x42; in every          *)
(* __init__ the bus is opened before any transfer and the first transfer   *)
(* is the version read, so it precedes every register write.               *)
C17_ResetThenVersionRead ==
    /\ (reset_pin # 0 /\ pc \notin {"claim_gpio", "reset"}) =>
          /\ Len(initLog) >= 2
          /\ initLog[1].kind = "gpio_write" /\ initLog[1].bytes = <<reset_pin, 0>>
          /\ initLog[2].kind = "gpio_write" /\ initLog[2].bytes = <<reset_pin, 1>>
    /\ \A i, j \in 1..Len(initLog) :
          /\ (initLog[i].kind = "gpio_write" /\ initLog[j].kind # "gpio_write") => i < j
          /\ (initLog[i].kind = "spi_open" /\ initLog[j].kind = "xfer") => i < j
    /\ \A i \in 1..Len(initLog) :
          initLog[i].kind = "xfer" => \E j \in 1..(i - 1) : initLog[j].kind = "spi_open"
    /\ LET xs == SelectSeq(initLog, IsXferEvent)
       IN  xs # <<>> => (xs[1].op = "read" /\ xs[1].bytes = <<66, 0>>)

C17_Witness ==
    /\ reset_pin = 12
    /\ pc = "constructed"
    /\ board_version = 18
    /\ Len(Writes(initLog)) = 12

(* C19: every transfer issued by spi_write carries an address byte with    *)
(* bit 7 set, over a register address 0..127, and every transfer issued by *)
(* spi_read carries one with bit 7 clear.                                  *)
C19_WriteMarker ==
    \A i \in 1..Len(initLog \o sendLog) :
        LET e == (initLog \o sendLog)[i]
        IN  /\ e.op = "write" =>
                 /\ BitAnd(e.bytes[1], 128) = 128
                 /\ e.bytes[1] \in 128..255
            /\ e.op = "read" =>
                 /\ BitAnd(e.bytes[1], 128) = 0
                 /\ e.bytes[1] \in 0..127

C19_Witness ==
    /\ Returned("Success")
    /\ board_version = 18
    /\ Len(initLog) = 17
    /\ \E i \in 1..Len(sendLog) : sendLog[i].op = "read"
    /\ \E i \in 1..Len(sendLog) : sendLog[i].op = "write" /\ sendLog[i].bytes[1] = 128

\* bit 7 (full) or bit 5 (level) of a value read from 0x3F
FullOrLevel(value) == BitAnd(value, 128) # 0 \/ BitAnd(value, 32) # 0

\* what the chip reported to the reads of the latest iteration
OverrunShown == \E i \in 1..Len(irq_reads) : OverrunBit(irq_reads[i])

BusyShown == \E i \in 1..Len(irq_reads) : FullOrLevel(irq_reads[i])

ClearShown == \E i \in 1..Len(irq_reads) : ~FullOrLevel(irq_reads[i])

\* no status without full or level, and none with overrun, is on show:
\* the iteration is about to read, or every answer to it was such a status
StuckShown ==
    \/ pc = "poll"
    \/ /\ irq_reads # <<>>
       /\ \A i \in 1..Len(irq_reads) :
             FullOrLevel(irq_reads[i]) /\ ~OverrunBit(irq_reads[i])

InSend == pc \in {"loop", "poll", "write"}

(* C15: if the chip never reports overrun and, whenever it reports full or *)
(* level, later reports a status with both clear, then every send that has *)
(* started returns Success; and if from some poll on every status the chip *)
(* reports has full or level set and overrun clear, then from some point   *)
(* on the send stays in its poll loop: it never returns or writes.         *)
C15_ReturnsIffChipClears ==
    /\ ([]~OverrunShown /\ (BusyShown ~> ClearShown))
          => [](InSend => <>Returned("Success"))
    /\ (<>[]StuckShown) => <>[](pc \in {"loop", "poll"})

(* C18: for the values read from 0x3F in an iteration, the decoded flags    *)
(* are fifo_full = bit 7, fifo_level = bit 5, fifo_overrun = bit 4 of each  *)
(* value read, and the branch taken depends on those three bits alone.      *)
C18_FlagsAreBitsOfTheValueRead ==
    (irq_flags # <<>> /\ irq_reads # <<>>) =>
        \A i \in 1..8 :
            /\ fifo_full(irq_flags) <=> BitAnd(irq_reads[i], 128) # 0
            /\ fifo_level(irq_flags) <=> BitAnd(irq_reads[i], 32) # 0
            /\ fifo_overrun(irq_flags) <=> BitAnd(irq_reads[i], 16) # 0

====
